---- MODULE Spec2Model ----
(***************************************************************************)
(* CSV ingestion pipeline of the roster-management admin tool: the record  *)
(* validator (src-tauri/src/db/csv_import.rs) and the import reconciler    *)
(* (gj7-admin/src-tauri/src/csv_commands.rs, import_csv_file), run against *)
(* the school_accounts table; and the WebSocket relay of attendance events *)
(* (gj7-admin/src-tauri/src/websocket.rs).                                 *)
(*                                                                         *)
(* Every database statement of import_csv_file is one atomic step of a     *)
(* run; a statement the code guards with map_err or a match on Err may     *)
(* fail (the failure is an input of the step).                             *)
(***************************************************************************)
EXTENDS Integers, Sequences, FiniteSets, TLC

VARIABLES school_accounts, run

\* the WebSocket relay (gj7-admin/src-tauri/src/websocket.rs)
VARIABLES connections, sender_tx, client_rx, socket, broadcast, attendances

relay == <<connections, sender_tx, client_rx, socket, broadcast, attendances>>

vars == <<school_accounts, run, relay>>

(***************************************************************************)
(* Bounds of the model.                                                    *)
(***************************************************************************)
NumIds == 2          \* distinct external ids (school_id) a file may carry
MaxRows == 2         \* data rows of an imported file
NumSemesters == 2    \* distinct semester ids a caller may supply
NumRuns == 2         \* import_csv_file invocations that may be in flight

(***************************************************************************)
(* Program constants.                                                      *)
(***************************************************************************)
max_file_size == 10485760      \* 10 * 1024 * 1024
PreviewLimit == 5

SchoolIds == {"s" \o ToString(i) : i \in 1..NumIds}
Semesters == 1..NumSemesters
Runs == 1..NumRuns

required_headers == <<"student_id", "first_name", "middle_name", "last_name">>

(***************************************************************************)
(* Strings.  to_lowercase and trim on the vocabulary of the model.         *)
(***************************************************************************)
to_lowercase(s) ==
    CASE s = "Student_ID" -> "student_id"
      [] s = "FIRST_NAME" -> "first_name"
      [] s = "CSV" -> "csv"
      [] s = "Male" -> "male"
      [] OTHER -> s

trim(s) ==
    CASE s = " " -> ""
      [] s = " s1 " -> "s1"
      [] OTHER -> s

SeqToSet(s) == {s[i] : i \in 1..Len(s)}

\* headers.iter().position(|h| h.to_lowercase() == name); 0 stands for None
position(headers, name) ==
    IF \E i \in 1..Len(headers) : to_lowercase(headers[i]) = name
    THEN CHOOSE i \in 1..Len(headers) :
            /\ to_lowercase(headers[i]) = name
            /\ \A j \in 1..(i - 1) : to_lowercase(headers[j]) # name
    ELSE 0

\* record.get(idx).unwrap_or("")
get(cells, idx) == IF idx >= 1 /\ idx <= Len(cells) THEN cells[idx] ELSE ""

(***************************************************************************)
(* CsvValidator.                                                           *)
(***************************************************************************)
ValidationError(row_number, field, error_type) ==
    [row_number |-> row_number, field |-> field, error_type |-> error_type]

RECURSIVE MissingFrom(_, _, _)
MissingFrom(required, header_names, i) ==
    IF i > Len(required) THEN <<>>
    ELSE (IF to_lowercase(required[i]) \in header_names THEN <<>>
          ELSE <<ValidationError(0, required[i], "HeaderMissing")>>)
         \o MissingFrom(required, header_names, i + 1)

\* header names compared as they are written
validate_headers_case_sensitive(headers) ==
    MissingFrom(required_headers, {headers[i] : i \in 1..Len(headers)}, 1)

validate_headers(headers) ==
    MissingFrom(required_headers,
                {to_lowercase(headers[i]) : i \in 1..Len(headers)}, 1)

RECURSIVE RequiredErrors(_, _, _)
RequiredErrors(cells, headers, i) ==
    IF i > Len(required_headers) THEN <<>>
    ELSE LET idx == position(headers, to_lowercase(required_headers[i]))
         IN (IF idx # 0 /\ trim(get(cells, idx)) = ""
             THEN <<ValidationError(0, required_headers[i], "DataIntegrity")>>
             ELSE <<>>)
            \o RequiredErrors(cells, headers, i + 1)

optional_fields == <<"gender", "year_level", "is_active", "last_updated_semester_id">>

optional_field_validation(header, value) ==
    CASE header = "gender" ->
            to_lowercase(value) \in {"male", "female", "other", "0", "1", "2"}
      [] header = "year_level" -> TRUE
      [] header = "is_active" -> value \in {"0", "1", "true", "false"}
      [] header = "last_updated_semester_id" ->
            value = "00000000-0000-0000-0000-000000000001"
      [] OTHER -> TRUE

RECURSIVE OptionalErrors(_, _, _)
OptionalErrors(cells, headers, i) ==
    IF i > Len(optional_fields) THEN <<>>
    ELSE LET idx == position(headers, optional_fields[i])
             value == trim(get(cells, idx))
         IN (IF idx # 0 /\ value # ""
                /\ ~optional_field_validation(optional_fields[i], value)
             THEN <<ValidationError(0, optional_fields[i], "TypeMismatch")>>
             ELSE <<>>)
            \o OptionalErrors(cells, headers, i + 1)

validate_record(cells, headers) ==
    RequiredErrors(cells, headers, 1) \o OptionalErrors(cells, headers, 1)

\* the headers the reader hands out: StringRecord::new() when they cannot be read
read_headers(file) == IF file.header_ok THEN file.headers ELSE <<>>

\* the loop over rdr.records().enumerate(): n is the number of rows consumed
RECURSIVE RowErrors(_, _, _)
RowErrors(rows, headers, n) ==
    IF n > Len(rows) THEN <<>>
    ELSE (IF rows[n].parse_ok
          THEN validate_record(rows[n].cells, headers)
          ELSE <<ValidationError(n, "None", "DataIntegrity")>>)
         \o RowErrors(rows, headers, n + 1)

\* only a row the reader cannot parse is counted as invalid
invalid_row_unparsed(row, headers) == ~row.parse_ok

\* the row takes the invalid_records += 1 branch of the loop
invalid_row(row, headers) ==
    ~row.parse_ok \/ validate_record(row.cells, headers) # <<>>

\* every row is captured
in_preview_always(idx) == TRUE

\* if idx < 5, idx the 0-based index of the row among the rows of the file
in_preview(idx) == idx < PreviewLimit

RECURSIVE PreviewRows(_, _)
PreviewRows(rows, n) ==
    IF n > Len(rows) THEN <<>>
    ELSE (IF rows[n].parse_ok /\ in_preview(n - 1)
          THEN <<rows[n].cells>> ELSE <<>>)
         \o PreviewRows(rows, n + 1)

\* the size and type checks, the second skipped when the first fails
FileErrorsShortCircuit(file) ==
    IF file.size > max_file_size
    THEN <<ValidationError(0, "None", "FileSize")>>
    ELSE IF to_lowercase(file.extension) # "csv"
    THEN <<ValidationError(0, "None", "FileType")>> ELSE <<>>

\* the size check and the type check
FileErrors(file) ==
    (IF file.size > max_file_size
     THEN <<ValidationError(0, "None", "FileSize")>> ELSE <<>>)
    \o (IF to_lowercase(file.extension) # "csv"
        THEN <<ValidationError(0, "None", "FileType")>> ELSE <<>>)

\* the errors vector of a file whose contents were read, when the row loop ends
accumulated_errors(file) ==
    FileErrors(file)
    \o (IF ~file.utf8
        THEN <<ValidationError(0, "None", "Encoding")>> ELSE <<>>)
    \o (IF ~file.header_ok
        THEN <<ValidationError(0, "None", "HeaderMissing")>> ELSE <<>>)
    \o validate_headers(read_headers(file))
    \o RowErrors(file.rows, read_headers(file), 1)

\* a result that is valid whatever was accumulated
is_valid_whatever(errors) == TRUE

\* is_valid: errors.is_empty()
is_valid(errors) == errors = <<>>

\* the CsvValidationResult built once the row loop has ended
validation_result(file) ==
    LET errors == accumulated_errors(file)
        invalid_records ==
           Cardinality({n \in 1..Len(file.rows) :
                           invalid_row(file.rows[n], read_headers(file))})
    IN [is_valid |-> is_valid(errors),
        file_size |-> file.size,
        total_rows |-> Len(file.rows),
        validated_rows |-> Len(file.rows) - invalid_records,
        invalid_rows |-> invalid_records,
        preview_rows |-> PreviewRows(file.rows, 1),
        errors |-> errors]

\* validation that goes on to the checks whether or not the file can be read
validate_file_unguarded(file) ==
    LET built == validation_result(file)
    IN IF built.is_valid
       THEN [ok |-> TRUE, value |-> built]
       ELSE [ok |-> FALSE, errors |-> built.errors]

\* Result<CsvValidationResult, Vec<ValidationError>>
validate_file(file) ==
    IF ~file.exists
    THEN [ok |-> FALSE, errors |-> <<ValidationError(0, "None", "FileSize")>>]
    ELSE IF ~file.readable
    THEN [ok |-> FALSE, errors |-> <<ValidationError(0, "None", "Encoding")>>]
    ELSE LET built == validation_result(file)
         IN IF built.is_valid
            THEN [ok |-> TRUE, value |-> built]
            ELSE [ok |-> FALSE, errors |-> built.errors]

\* the cross-check's statement, SELECT .. FROM school_accounts WHERE school_id
\* IN (ids), marking what it selects
select_marking(table, ids) ==
    [rows |-> {s \in SchoolIds : table[s].present /\ s \in ids},
     table |-> [s \in SchoolIds |->
                   IF table[s].present /\ s \in ids
                   THEN [table[s] EXCEPT !.is_active = TRUE] ELSE table[s]]]

\* SELECT id, school_id, first_name, last_name FROM school_accounts WHERE
\* school_id IN (ids): the rows it yields and the table it leaves
select_school_accounts(table, ids) ==
    [rows |-> {s \in SchoolIds : table[s].present /\ s \in ids},
     table |-> table]

\* the cross-check of a file's ids with the table: the statement may fail (ok)
check_existing_school_accounts(table, headers, records, ok) ==
    LET school_id_index == position(headers, "student_id")
        id_of(i) == trim(get(records[i].cells, school_id_index))
        csv_school_ids == {id_of(i) : i \in 1..Len(records)} \ {""}
        selected == select_school_accounts(table, csv_school_ids)
        csv_row_number(s) ==
            (CHOOSE i \in 1..Len(records) :
                /\ id_of(i) = s
                /\ \A j \in 1..(i - 1) : id_of(j) # s) + 1
    IN IF school_id_index = 0 \/ csv_school_ids = {}
       THEN [existing_accounts |-> {}, table |-> table]
       ELSE IF ~ok
       THEN [existing_accounts |-> {}, table |-> table]
       ELSE [existing_accounts |->
                {[school_id |-> s, row_number |-> csv_row_number(s)] :
                    s \in selected.rows},
             table |-> selected.table]

(***************************************************************************)
(* Files.  A file is what validate_file and the reader see of it: whether  *)
(* its metadata and contents can be read, its size and extension, whether  *)
(* it is UTF-8, its header line and its data rows.  A row is its cells,    *)
(* whether the csv reader can parse it, and whether the transformer can    *)
(* turn it into a request.                                                 *)
(***************************************************************************)
import_headers ==
    <<"student_id", "first_name", "middle_name", "last_name", "is_active">>

Row(school_id, first_name, is_active, parse_ok, transformable) ==
    [cells |-> <<school_id, first_name, "n", "n", is_active>>,
     parse_ok |-> parse_ok, transformable |-> transformable]

CsvFile(exists, extension, headers, rows) ==
    [exists |-> exists, readable |-> TRUE, size |-> 100, extension |-> extension,
     utf8 |-> TRUE, header_ok |-> TRUE, headers |-> headers, rows |-> rows]

SeqsUpTo(S, n) == UNION {[1..k -> S] : k \in 0..n}

WellFormedRows ==
    {Row(s, "n", a, TRUE, t) : s \in SchoolIds, a \in {"0", "1"}, t \in BOOLEAN}

\* files that pass validation
ValidFiles ==
    {CsvFile(TRUE, "csv", import_headers, rows) : rows \in SeqsUpTo(WellFormedRows, MaxRows)}

\* files that fail it: missing, wrong extension, a required header missing,
\* a blank required field, a row the reader cannot parse
InvalidFiles ==
    LET r1 == Row("s1", "n", "1", TRUE, TRUE)
    IN {CsvFile(FALSE, "csv", import_headers, <<r1>>),
        CsvFile(TRUE, "txt", import_headers, <<r1>>),
        CsvFile(TRUE, "CSV", <<"Student_ID", "first_name", "last_name">>, <<r1>>),
        CsvFile(TRUE, "csv", import_headers, <<Row("s1", " ", "1", TRUE, TRUE)>>),
        CsvFile(TRUE, "csv", import_headers, <<Row("s1", "n", "1", FALSE, TRUE)>>)}

ImportFiles == ValidFiles \cup InvalidFiles

(***************************************************************************)
(* Field transformer (db/csv_transform.rs): one result per parsed row, in  *)
(* file order.                                                             *)
(***************************************************************************)
transform_record(row, headers) ==
    IF row.transformable
    THEN [ok |-> TRUE,
          school_id |-> trim(get(row.cells, position(headers, "student_id"))),
          is_active |->
             trim(get(row.cells, position(headers, "is_active"))) \in {"1", "true"}]
    ELSE [ok |-> FALSE]

\* rdr.records().filter_map(Result::ok), then batch_transform_records
batch_transform_records(file) ==
    LET records == SelectSeq(file.rows, LAMBDA row : row.parse_ok)
    IN [i \in 1..Len(records) |-> transform_record(records[i], read_headers(file))]

(***************************************************************************)
(* Account store (db/school_accounts.rs): the school_accounts table, keyed *)
(* by school_id.                                                           *)
(***************************************************************************)
Absent == [present |-> FALSE]

Account(is_active, semester) ==
    [present |-> TRUE, is_active |-> is_active, last_updated_semester_id |-> semester]

\* SELECT COUNT(*) FROM school_accounts
count_total(table) == Cardinality({s \in SchoolIds : table[s].present})

\* the count without its WHERE clause
count_active_unfiltered(table) == Cardinality({s \in SchoolIds : table[s].present})

\* SELECT COUNT(*) FROM school_accounts WHERE is_active = 1
count_active(table) ==
    Cardinality({s \in SchoolIds : table[s].present /\ table[s].is_active})

\* the sweep leaves the table as it is
deactivate_none(table) == table

\* UPDATE school_accounts SET is_active = 0
deactivate_all(table) ==
    [s \in SchoolIds |->
        IF table[s].present THEN [table[s] EXCEPT !.is_active = FALSE] ELSE table[s]]

\* UPDATE school_accounts SET is_active = 1 WHERE school_id IN (ids)
activate_many(table, ids) ==
    [s \in SchoolIds |->
        IF table[s].present /\ s \in SeqToSet(ids)
        THEN [table[s] EXCEPT !.is_active = TRUE] ELSE table[s]]

\* get_school_account_by_school_id: Ok(account) or Err
get_school_account_by_school_id(table, school_id) == table[school_id]

create_school_account(table, request, semester_id) ==
    [table EXCEPT ![request.school_id] = Account(request.is_active, semester_id)]

update_school_account(table, request, semester_id) ==
    [table EXCEPT ![request.school_id] = Account(request.is_active, semester_id)]

(***************************************************************************)
(* import_csv_file.  run[r] is one invocation: its arguments, its position *)
(* (pc), its locals and its return value.  pre, swept, faults and prev are *)
(* history: the table when the run began, whether its deactivate-all sweep *)
(* has executed, the store and file operations that failed in it, and what *)
(* the invocation before it was.                                           *)
(***************************************************************************)
NoResult == [kind |-> "none"]

Err(message, errors) == [kind |-> "err", message |-> message, errors |-> errors]

NoPrev == [same |-> FALSE, ok |-> FALSE, clean |-> FALSE]

NoFile == CsvFile(FALSE, "", <<>>, <<>>)

IdleRun(table) ==
    [pc |-> "idle", file_path |-> NoFile, semester_id |-> 0, force_update |-> FALSE,
     idx |-> 0, school_ids_to_activate |-> <<>>,
     total_processed |-> 0, successful_imports |-> 0, failed_imports |-> 0,
     error_details |-> <<>>, existing_accounts |-> <<>>, activated_accounts |-> 0,
     result |-> NoResult,
     pre |-> table, swept |-> FALSE, faults |-> <<>>, prev |-> NoPrev]

batched_records(r) == batch_transform_records(run[r].file_path)

\* the messages of per-row store failures and transform errors
RowFailures == {"Transform error", "Update failed", "Import failed"}

\* a finished invocation returned an outcome in which no row failed for any
\* other reason than "already exists"
CleanOutcome(rec) ==
    /\ rec.result.kind = "ok"
    /\ \A i \in 1..Len(rec.error_details) : rec.error_details[i].message \notin RowFailures

\* return Err(..): lines 181, 185, 212, 219, 225, 314, 321, 334
Abort(rec, message, errors, fault) ==
    [rec EXCEPT !.pc = "done", !.result = Err(message, errors),
                !.faults = IF fault = "" THEN @ ELSE Append(@, fault)]

\* the end of one iteration of the row loop (lines 238-298)
NextRow(rec) ==
    [rec EXCEPT !.idx = @ + 1,
                !.pc = IF rec.idx + 1 > Len(batch_transform_records(rec.file_path))
                       THEN "activate" ELSE "row"]

RowFailed(rec, message, school_id) ==
    NextRow([rec EXCEPT !.failed_imports = @ + 1,
                        !.error_details =
                           Append(@, [message |-> message, school_id |-> school_id])])

\* a transform error that is reported but not counted
TransformFailedUncounted(rec) ==
    NextRow([rec EXCEPT !.error_details =
                           Append(@, [message |-> "Transform error", school_id |-> ""])])

\* a transform error that ends the import
TransformFailedFatal(rec) == Abort(rec, "Transform error", <<>>, "")

\* lines 292-295
TransformFailed(rec) == RowFailed(rec, "Transform error", "")

\* an existing account counted as a successful import
AlreadyExistsCounted(rec, school_id) ==
    NextRow([rec EXCEPT !.successful_imports = @ + 1])

\* an existing account passed over without a word
AlreadyExistsSkipped(rec, school_id) == NextRow(rec)

\* lines 272-276
AlreadyExists(rec, school_id) == RowFailed(rec, "already exists", school_id)

\* lines 263-266
Updated(rec, school_id) ==
    NextRow([rec EXCEPT !.successful_imports = @ + 1,
                        !.existing_accounts = Append(@, school_id)])

\* lines 267-270
UpdateFailed(rec, school_id) ==
    RowFailed([rec EXCEPT !.faults = Append(@, "update")], "Update failed", school_id)

\* lines 281-283
Created(rec) == NextRow([rec EXCEPT !.successful_imports = @ + 1])

\* a create failure that ends the import
CreateFailedFatal(rec, school_id) == Abort(rec, "Import failed", <<>>, "create")

\* lines 284-287
CreateFailed(rec, school_id) ==
    RowFailed([rec EXCEPT !.faults = Append(@, "create")], "Import failed", school_id)

\* line 225: the sweep failed
DeactivateFailed(rec) ==
    Abort(rec, "Failed to deactivate existing accounts", <<>>, "deactivate")

\* a reactivation failure that is swallowed
ActivateFailedIgnored(rec) ==
    [rec EXCEPT !.faults = Append(@, "activate"), !.pc = "count_activated"]

\* line 314: the bulk reactivation failed
ActivateFailed(rec) ==
    Abort(rec, "Failed to activate imported accounts", <<>>, "activate")

\* the validation result is not looked at
ValidationGateOpen(v) == TRUE

\* lines 180-181: the ? on the validation result
ValidationGate(v) == v.ok

\* a single-flight guard: the sweep waits until no other run is in flight
DeactivateGuardSingleFlight(r) ==
    /\ run[r].pc = "deactivate"
    /\ \A q \in Runs \ {r} : run[q].pc \in {"idle", "done"}

\* lines 221-225: what the sweep waits for: nothing but its turn in the run
DeactivateGuard(r) == run[r].pc = "deactivate"

\* force_update taken as set
ForceUpdateAlways(rec) == TRUE

\* line 256: if force_update
ForceUpdate(rec) == rec.force_update

\* lines 165-174: a call of the command
Begin(r, file_path, semester_id, force_update) ==
    /\ run[r].pc \in {"idle", "done"}
    /\ UNCHANGED relay
    /\ run' = [run EXCEPT ![r] =
          [IdleRun(school_accounts) EXCEPT
              !.pc = "validate", !.file_path = file_path,
              !.semester_id = semester_id, !.force_update = force_update,
              !.prev = [same |-> run[r].pc = "done" /\ run[r].file_path = file_path,
                        ok |-> run[r].result.kind = "ok",
                        clean |-> CleanOutcome(run[r])]]]
    /\ UNCHANGED school_accounts

\* lines 176-204: validate, then re-read and transform the file
Validate(r) ==
    /\ run[r].pc = "validate"
    /\ UNCHANGED relay
    /\ LET v == validate_file(run[r].file_path)
       IN IF ~ValidationGate(v)
          THEN run' = [run EXCEPT ![r] = Abort(@, "Validation failed", v.errors, "")]
          ELSE \E io \in BOOLEAN :
                  run' = [run EXCEPT ![r] =
                             IF io THEN [@ EXCEPT !.pc = "count_before"]
                             ELSE Abort(@, "Failed to read CSV", <<>>, "read")]
    /\ UNCHANGED school_accounts

\* lines 206-219: the two counts taken before the sweep
CountBefore(r) ==
    /\ run[r].pc = "count_before"
    /\ UNCHANGED relay
    /\ \E outcome \in {"ok", "Failed to count total accounts",
                       "Failed to count active accounts"} :
          run' = [run EXCEPT ![r] =
                     IF outcome = "ok" THEN [@ EXCEPT !.pc = "deactivate"]
                     ELSE Abort(@, outcome, <<>>, "count_before")]
    /\ UNCHANGED school_accounts

\* lines 221-235: deactivate all accounts
Deactivate(r) ==
    /\ DeactivateGuard(r)
    /\ UNCHANGED relay
    /\ \E ok \in BOOLEAN :
          IF ok
          THEN /\ school_accounts' = deactivate_all(school_accounts)
               /\ run' = [run EXCEPT ![r] = NextRow([@ EXCEPT !.swept = TRUE])]
          ELSE /\ run' = [run EXCEPT ![r] = DeactivateFailed(@)]
               /\ UNCHANGED school_accounts

\* lines 241-256, 272-278, 292-295: one transformed row up to the lookup
ProcessRow(r) ==
    /\ run[r].pc = "row"
    /\ UNCHANGED relay
    /\ LET result == batched_records(r)[run[r].idx]
           counted == [run[r] EXCEPT !.total_processed = @ + 1]
       IN IF ~result.ok
          THEN run' = [run EXCEPT ![r] = TransformFailed(counted)]
          ELSE LET pushed == [counted EXCEPT !.school_ids_to_activate =
                                                Append(@, result.school_id)]
                   found == get_school_account_by_school_id(school_accounts,
                                                            result.school_id).present
               IN run' = [run EXCEPT ![r] =
                     IF found
                     THEN IF ForceUpdate(run[r])
                          THEN [pushed EXCEPT !.pc = "update"]
                          ELSE AlreadyExists(pushed, result.school_id)
                     ELSE [pushed EXCEPT !.pc = "create"]]
    /\ UNCHANGED school_accounts

\* lines 256-271: update the existing account
Update(r) ==
    /\ run[r].pc = "update"
    /\ UNCHANGED relay
    /\ LET request == batched_records(r)[run[r].idx]
       IN \E ok \in BOOLEAN :
             IF ok
             THEN /\ school_accounts' =
                        update_school_account(school_accounts, request, run[r].semester_id)
                  /\ run' = [run EXCEPT ![r] = Updated(@, request.school_id)]
             ELSE /\ run' = [run EXCEPT ![r] = UpdateFailed(@, request.school_id)]
                  /\ UNCHANGED school_accounts

\* lines 278-289: create the account; school_id is a unique key of the table
Create(r) ==
    /\ run[r].pc = "create"
    /\ UNCHANGED relay
    /\ LET request == batched_records(r)[run[r].idx]
       IN \E ok \in (IF school_accounts[request.school_id].present
                     THEN {FALSE} ELSE BOOLEAN) :
             IF ok
             THEN /\ school_accounts' =
                        create_school_account(school_accounts, request, run[r].semester_id)
                  /\ run' = [run EXCEPT ![r] = Created(@)]
             ELSE /\ run' = [run EXCEPT ![r] = CreateFailed(@, request.school_id)]
                  /\ UNCHANGED school_accounts

\* the reactivation runs whatever the activation set holds
activation_attempted(school_ids_to_activate) == FALSE

\* line 301: if !school_ids_to_activate.is_empty() .. else 0
activation_skipped(school_ids_to_activate) == school_ids_to_activate = <<>>

\* lines 300-314, 324-326: activate the imported accounts, unless there are none
Activate(r) ==
    /\ run[r].pc = "activate"
    /\ UNCHANGED relay
    /\ IF activation_skipped(run[r].school_ids_to_activate)
       THEN /\ run' = [run EXCEPT ![r] =
                         [@ EXCEPT !.activated_accounts = 0, !.pc = "count_total"]]
            /\ UNCHANGED school_accounts
       ELSE \E ok \in BOOLEAN :
               IF ok
               THEN /\ school_accounts' =
                          activate_many(school_accounts, run[r].school_ids_to_activate)
                    /\ run' = [run EXCEPT ![r] = [@ EXCEPT !.pc = "count_activated"]]
               ELSE /\ run' = [run EXCEPT ![r] = ActivateFailed(@)]
                    /\ UNCHANGED school_accounts

\* lines 316-323: count the active accounts
CountActivated(r) ==
    /\ run[r].pc = "count_activated"
    /\ UNCHANGED relay
    /\ \E ok \in BOOLEAN :
          run' = [run EXCEPT ![r] =
                     IF ok
                     THEN [@ EXCEPT !.activated_accounts = count_active(school_accounts),
                                    !.pc = "count_total"]
                     ELSE Abort(@, "Failed to count activated accounts", <<>>,
                                "count_activated")]
    /\ UNCHANGED school_accounts

\* the CsvImportResponse built at lines 336-355
CsvImportResponse(rec, total_accounts_after) ==
    [kind |-> "ok",
     total_processed |-> rec.total_processed,
     successful_imports |-> rec.successful_imports,
     failed_imports |-> rec.failed_imports,
     error_details |-> rec.error_details,
     new_accounts_count |-> rec.total_processed - Len(rec.existing_accounts),
     existing_accounts_count |-> Len(rec.existing_accounts),
     total_accounts |-> total_accounts_after,
     activated_accounts |-> rec.activated_accounts,
     deactivated_accounts |-> total_accounts_after - rec.activated_accounts]

\* lines 328-365: count the accounts and return the outcome
CountTotal(r) ==
    /\ run[r].pc = "count_total"
    /\ UNCHANGED relay
    /\ \E ok \in BOOLEAN :
          run' = [run EXCEPT ![r] =
                     IF ok
                     THEN [@ EXCEPT !.pc = "done",
                                    !.result = CsvImportResponse(
                                                  run[r], count_total(school_accounts))]
                     ELSE Abort(@, "Failed to count total accounts", <<>>, "count_total")]
    /\ UNCHANGED school_accounts

\* line 365: the caller has the return value; the invocation is over
Return(r) ==
    /\ run[r].pc = "done"
    /\ UNCHANGED relay
    /\ run' = [run EXCEPT ![r] = IdleRun(school_accounts)]
    /\ UNCHANGED school_accounts

Step(r) ==
    \/ Validate(r)
    \/ CountBefore(r)
    \/ Deactivate(r)
    \/ ProcessRow(r)
    \/ Update(r)
    \/ Create(r)
    \/ Activate(r)
    \/ CountActivated(r)
    \/ CountTotal(r)

(***************************************************************************)
(* WebSocket relay (websocket.rs).  WebSocketState::new makes the relay's  *)
(* input channel sender_tx and spawns the broadcast task; handle_socket    *)
(* serves one client: it makes the client's channel client_rx, registers   *)
(* the client in connections, and runs a sender task (client_rx to the     *)
(* socket) and a receiver task (socket to the database and sender_tx).     *)
(* Every await of the code is a step.  socket[c] is handle_socket for      *)
(* client c, broadcast the broadcast task, attendances the records of the  *)
(* database; sent_to is the history of the event the task is handling.     *)
(***************************************************************************)
NumClients == 3         \* clients that may connect
MaxRequests == 1        \* messages a client sends before it closes
ChannelCapacity == 1    \* stands for the 100 of mpsc::channel(100)

Clients == {"c" \o ToString(i) : i \in 1..NumClients}

NoEvent == [kind |-> "none"]

\* an AttendanceEvent, with the client and the request it was produced for
AttendanceEvent(kind, client_id, request) ==
    [kind |-> kind, client_id |-> client_id, request |-> request]

NewSocket ==
    [pc |-> "new", receiver |-> "none", sender |-> "none",
     requests |-> 0, message |-> "none", event |-> NoEvent]

IdleBroadcast ==
    [pc |-> "recv", exclude_client |-> "", event |-> NoEvent, todo |-> <<>>,
     sent_to |-> {}]

\* the orders in which connections.iter() may hand out the clients
Orders(S) ==
    {order \in [1..Cardinality(S) -> S] :
        \A i, j \in 1..Cardinality(S) : i # j => order[i] # order[j]}

\* a guard that is dropped before the sends
connections_unlocked == FALSE

\* the broadcast task holds the guard of connections.lock()
connections_locked == broadcast.pc = "iterate"

\* send(..).await goes through when the bounded channel has room
has_capacity(queue) == Len(queue) < ChannelCapacity

\* no client is left out
excluded_never(client_id, exclude_client) == FALSE

\* line 77: if *client_id != exclude_client
excluded(client_id, exclude_client) == client_id = exclude_client

\* NewAttendance is relayed whatever the database said
created_event_unchecked(ok, client_id, request) ==
    AttendanceEvent("NewAttendance", client_id, request)

\* lines 164-177: NewAttendance after Ok(_), Error after Err(e)
created_event(ok, client_id, request) ==
    AttendanceEvent(IF ok THEN "NewAttendance" ELSE "Error", client_id, request)

\* lines 180-193: AttendanceList after Ok(attendances), Error after Err(e)
listed_event(ok, client_id, request) ==
    AttendanceEvent(IF ok THEN "AttendanceList" ELSE "Error", client_id, request)

\* SqliteAttendanceRepository::create_attendance as lines 99-101 see it: the
\* record of the request is in the database when it returns Ok, and only then
create_attendance(table, request, ok) == IF ok THEN table \cup {request} ELSE table

\* select! has completed: handle_socket goes on to unregister the client
TaskEnded(pc) == IF pc = "serving" THEN "unregister" ELSE pc

\* lines 130-158: a client connects; its id and its channel are made, the
\* client is registered under the lock and the two tasks are spawned.  While
\* the lock is held handle_socket waits at line 136, having changed nothing
Register(c) ==
    /\ socket[c].pc = "new"
    /\ ~connections_locked
    /\ connections' = connections \cup {c}
    /\ socket' = [socket EXCEPT ![c].pc = "serving", ![c].receiver = "next",
                                ![c].sender = "running"]
    /\ UNCHANGED <<school_accounts, run, sender_tx, client_rx, broadcast,
                   attendances>>

\* the event the receiver task produces for a message, given what the
\* database answers (lines 162-203)
produced_event(message, ok, client_id, request) ==
    CASE message = "NewAttendance" -> created_event(ok, client_id, request)
      [] message = "AttendanceList" -> listed_event(ok, client_id, request)
      [] OTHER -> AttendanceEvent("Error", client_id, request)

\* lines 159-164, 180, 195, 206: the receiver task reads a message; Close
\* ends the task; any other message is parsed and served by the database
\* (create_attendance, get_all_attendances), which leaves an event to send
ReceiverNext(c, message, ok) ==
    /\ socket[c].receiver = "next"
    /\ IF message = "Close"
       THEN /\ socket' = [socket EXCEPT ![c].receiver = "ended",
                                        ![c].pc = TaskEnded(@)]
            /\ UNCHANGED attendances
       ELSE LET request == socket[c].requests + 1
            IN /\ socket[c].requests < MaxRequests
               /\ socket' = [socket EXCEPT
                                ![c].requests = request,
                                ![c].receiver = "send",
                                ![c].message = message,
                                ![c].event = produced_event(message, ok, c, request)]
               /\ attendances' = IF message = "NewAttendance"
                                 THEN create_attendance(attendances, <<c, request>>, ok)
                                 ELSE attendances
    /\ UNCHANGED <<school_accounts, run, connections, sender_tx, client_rx, broadcast>>

\* lines 166-201: ws_state.sender_tx.send((client_id, event)).await
SendEvent(c) ==
    /\ socket[c].receiver = "send"
    /\ has_capacity(sender_tx)
    /\ sender_tx' = Append(sender_tx, [exclude_client |-> c, event |-> socket[c].event])
    /\ socket' = [socket EXCEPT ![c].receiver = "next", ![c].message = "none",
                                ![c].event = NoEvent]
    /\ UNCHANGED <<school_accounts, run, connections, client_rx, broadcast,
                   attendances>>

\* lines 143-149: the sender task takes an event and writes it to the socket;
\* when the write fails the task ends and the channel is closed
SenderTask(c) ==
    /\ socket[c].sender = "running"
    /\ client_rx[c] # <<>>
    /\ \E ok \in BOOLEAN :
          IF ok
          THEN /\ client_rx' = [client_rx EXCEPT ![c] = Tail(@)]
               /\ UNCHANGED socket
          ELSE /\ client_rx' = [client_rx EXCEPT ![c] = <<>>]
               /\ socket' = [socket EXCEPT ![c].sender = "ended",
                                           ![c].pc = TaskEnded(@)]
    /\ UNCHANGED <<school_accounts, run, connections, sender_tx, broadcast,
                   attendances>>

\* lines 213-219: a task has ended; the client is removed under the lock.
\* That drops client_tx, the last sender of the client's channel: the
\* sender task writes out what the channel still holds and ends (line 143)
Unregister(c) ==
    /\ socket[c].pc = "unregister"
    /\ ~connections_locked
    /\ connections' = connections \ {c}
    /\ client_rx' = [client_rx EXCEPT ![c] = <<>>]
    /\ socket' = [socket EXCEPT ![c].pc = "closed", ![c].sender = "ended"]
    /\ UNCHANGED <<school_accounts, run, sender_tx, broadcast, attendances>>

\* line 74: receiver.recv().await
BroadcastRecv ==
    /\ broadcast.pc = "recv"
    /\ sender_tx # <<>>
    /\ broadcast' = [IdleBroadcast EXCEPT
                        !.pc = "lock",
                        !.exclude_client = Head(sender_tx).exclude_client,
                        !.event = Head(sender_tx).event]
    /\ sender_tx' = Tail(sender_tx)
    /\ UNCHANGED <<school_accounts, run, connections, client_rx, socket,
                   attendances>>

\* lines 75-76: connections_clone.lock().await, connections.iter()
BroadcastLock ==
    /\ broadcast.pc = "lock"
    /\ \E order \in Orders(connections) :
          broadcast' = [broadcast EXCEPT !.pc = "iterate", !.todo = order]
    /\ UNCHANGED <<school_accounts, run, connections, sender_tx, client_rx, socket,
                   attendances>>

\* lines 76-79: the next client of the iteration: left out, or its channel
\* is closed, or the event is put in its channel once there is room
BroadcastSend ==
    /\ broadcast.pc = "iterate"
    /\ broadcast.todo # <<>>
    /\ LET c == Head(broadcast.todo)
       IN IF excluded(c, broadcast.exclude_client)
          THEN /\ broadcast' = [broadcast EXCEPT !.todo = Tail(@)]
               /\ UNCHANGED client_rx
          ELSE IF socket[c].sender = "ended"
          THEN /\ broadcast' = [broadcast EXCEPT !.todo = Tail(@)]
               /\ UNCHANGED client_rx
          ELSE /\ has_capacity(client_rx[c])
               /\ client_rx' = [client_rx EXCEPT ![c] = Append(@, broadcast.event)]
               /\ broadcast' = [broadcast EXCEPT !.todo = Tail(@),
                                                 !.sent_to = @ \cup {c}]
    /\ UNCHANGED <<school_accounts, run, connections, sender_tx, socket,
                   attendances>>

\* lines 80-81: the iteration is over and the guard dropped
BroadcastUnlock ==
    /\ broadcast.pc = "iterate"
    /\ broadcast.todo = <<>>
    /\ broadcast' = IdleBroadcast
    /\ UNCHANGED <<school_accounts, run, connections, sender_tx, client_rx, socket,
                   attendances>>

\* the state WebSocketState::new and create_websocket_routes leave
InitRelay ==
    /\ connections = {}
    /\ sender_tx = <<>>
    /\ client_rx = [c \in Clients |-> <<>>]
    /\ socket = [c \in Clients |-> NewSocket]
    /\ broadcast = IdleBroadcast
    /\ attendances = {}

(***************************************************************************)
(* Callers.  Spec: the caller serialises the imports, one invocation at a  *)
(* time, each with any file, semester and force_update.  SpecOverlap: two  *)
(* invocations are in flight together, each started once.                  *)
(***************************************************************************)
Init ==
    /\ school_accounts = [s \in SchoolIds |-> Absent]
    /\ run = [r \in Runs |-> IdleRun(school_accounts)]
    /\ InitRelay

\* a first call, with any file
Invoke ==
    /\ run[1].pc = "idle"
    /\ \E file_path \in ImportFiles, semester_id \in Semesters, force_update \in BOOLEAN :
          Begin(1, file_path, semester_id, force_update)

\* the file just imported is imported again
Reimport ==
    /\ run[1].pc = "done"
    /\ \E semester_id \in Semesters, force_update \in BOOLEAN :
          Begin(1, run[1].file_path, semester_id, force_update)

Next == Invoke \/ Reimport \/ Return(1) \/ Step(1)

Spec == Init /\ [][Next]_vars

\* the files of two overlapping invocations: valid, every row transformable
OverlapFiles ==
    {CsvFile(TRUE, "csv", import_headers, rows) :
        rows \in SeqsUpTo({Row(s, "n", "1", TRUE, TRUE) : s \in SchoolIds}, MaxRows)}

InvokeOverlap ==
    \E r \in Runs, file_path \in OverlapFiles, force_update \in BOOLEAN :
        /\ run[r].pc = "idle"
        /\ Begin(r, file_path, 1, force_update)

NextOverlap == InvokeOverlap \/ \E r \in Runs : Step(r)

SpecOverlap == Init /\ [][NextOverlap]_vars

(***************************************************************************)
(* validate_csv_file.  The command validates one file against the table    *)
(* and hands validate_file's return value to the caller.  Here run[r] is   *)
(* one invocation of it: the file, the locals of validate_file when it     *)
(* returns (validation_result, existing_accounts) and the return value.    *)
(***************************************************************************)
MaxValidateRows == 3    \* data rows of a validated file, any kind of row
MaxPreviewRows == 6     \* data rows of a file longer than the preview

ValidateHeaders ==
    {import_headers,
     <<"Student_ID", "FIRST_NAME", "middle_name", "last_name", "is_active">>,
     <<"Student_ID", "first_name", "nickname", "last_name", "is_active">>,
     <<"student_id", "given", "middle_name", "surname", "is_active">>}

\* a good row, a blank first_name, a blank student_id and first_name, a bad
\* is_active, a row the reader cannot parse
ValidateRows ==
    {Row("s1", "n", "1", TRUE, TRUE),
     Row("s1", " ", "1", TRUE, TRUE),
     Row(" ", "", "0", TRUE, TRUE),
     Row("s2", "n", "yes", TRUE, TRUE),
     Row("s1", "n", "1", FALSE, TRUE)}

\* readable files with any rows under any required headers
RowFiles ==
    {CsvFile(TRUE, "csv", headers, rows) :
        headers \in ValidateHeaders,
        rows \in SeqsUpTo(ValidateRows, MaxValidateRows)}

\* readable files with any size, extension, encoding and header line
FaultyFiles ==
    {[CsvFile(TRUE, extension, headers, rows) EXCEPT
         !.size = size, !.utf8 = utf8, !.header_ok = header_ok] :
        extension \in {"CSV", "txt"},
        headers \in ValidateHeaders,
        rows \in SeqsUpTo(ValidateRows, 1),
        size \in {max_file_size, max_file_size + 1},
        utf8 \in BOOLEAN, header_ok \in BOOLEAN}

\* files that do not exist, and files that exist but cannot be opened or read
UnreadableFiles ==
    {[CsvFile(exists, extension, import_headers, <<Row("s1", "n", "1", TRUE, TRUE)>>)
         EXCEPT !.readable = FALSE, !.size = size] :
        exists \in BOOLEAN, extension \in {"csv", "txt"},
        size \in {max_file_size, max_file_size + 1}}

\* files with more rows than the preview holds
LongFiles ==
    {CsvFile(TRUE, "csv", import_headers, rows) :
        rows \in UNION {[1..k -> {Row("s1", "n", "1", TRUE, TRUE),
                                  Row("s1", "n", "1", FALSE, TRUE)}] :
                           k \in (MaxValidateRows + 1)..MaxPreviewRows}}

ValidationFiles == RowFiles \cup FaultyFiles \cup UnreadableFiles \cup LongFiles

IdleValidation ==
    [pc |-> "idle", file_path |-> NoFile,
     validation_result |-> NoResult, existing_accounts |-> {}, result |-> NoResult]

\* validate_file as validate_csv_file runs it against the table
ValidateCsvFile(r, file_path) ==
    /\ run[r].pc = "idle"
    /\ UNCHANGED relay
    /\ \E ok \in BOOLEAN :
          LET read == file_path.exists /\ file_path.readable
              result == validate_file(file_path)
              checked ==
                 IF result.ok
                 THEN check_existing_school_accounts(
                         school_accounts, read_headers(file_path),
                         SelectSeq(file_path.rows, LAMBDA row : row.parse_ok), ok)
                 ELSE [existing_accounts |-> {}, table |-> school_accounts]
          IN /\ run' = [run EXCEPT ![r] =
                   [pc |-> "done", file_path |-> file_path,
                    validation_result |->
                       IF read THEN validation_result(file_path) ELSE NoResult,
                    existing_accounts |-> checked.existing_accounts,
                    result |-> result]]
             /\ school_accounts' = checked.table

\* the tables a validation may find: any accounts, left inactive by a sweep
ValidateTables == [SchoolIds -> {Absent, Account(FALSE, 1)}]

InitValidate ==
    /\ school_accounts \in ValidateTables
    /\ run = [r \in Runs |-> IdleValidation]
    /\ InitRelay

\* a call of the command, with any file
InvokeValidate ==
    /\ run[1].pc = "idle"
    /\ \E file_path \in ValidationFiles : ValidateCsvFile(1, file_path)

NextValidate == InvokeValidate

SpecValidate == InitValidate /\ [][NextValidate]_vars

(***************************************************************************)
(* The relay with its clients: any client connects, sends any messages,    *)
(* closes or loses its socket at any time.                                 *)
(***************************************************************************)
Messages_ws == {"NewAttendance", "AttendanceList", "Invalid", "Close"}

ClientStep(c) ==
    \/ Register(c)
    \/ \E message \in Messages_ws, ok \in BOOLEAN : ReceiverNext(c, message, ok)
    \/ SendEvent(c)
    \/ SenderTask(c)
    \/ Unregister(c)

BroadcastStep == BroadcastRecv \/ BroadcastLock \/ BroadcastSend \/ BroadcastUnlock

NextRelay == BroadcastStep \/ \E c \in Clients : ClientStep(c)

SpecRelay == Init /\ [][NextRelay]_vars

(***************************************************************************)
(* Properties of import_csv_file.                                          *)
(***************************************************************************)
\* the external ids the file carries, whatever becomes of their rows
FileIds(file) ==
    {trim(get(file.rows[i].cells, position(read_headers(file), "student_id"))) :
        i \in 1..Len(file.rows)}

\* the external ids of the rows the transformer turned into requests
TransformedIds(file) ==
    LET results == batch_transform_records(file)
    IN {results[i].school_id : i \in {j \in 1..Len(results) : results[j].ok}}

Present(table) == {s \in SchoolIds : table[s].present}

ActiveIds(table) == {s \in Present(table) : table[s].is_active}

\* the run has returned an Import Outcome
Completed(r) == run[r].pc = "done" /\ run[r].result.kind = "ok"

\* C1 as stated: after an import run that returned its outcome, the active
\* accounts are exactly the external ids present in the file.
C1_FileIdsActive ==
    \A r \in Runs :
        Completed(r) => ActiveIds(school_accounts) = FileIds(run[r].file_path)

\* C1 as amended: after an import run that returned its outcome (imports not
\* overlapping), an account is active exactly when its external id is that of
\* a row of the file that was transformed into a request; an id whose rows all
\* failed transformation, or whose account could not be created, is not active.
C1_Reconciled ==
    \A r \in Runs :
        Completed(r) =>
            ActiveIds(school_accounts) =
                TransformedIds(run[r].file_path) \cap Present(school_accounts)

\* an import has reactivated an account of its file and left inactive an
\* account that is not in the file
C1_ReconciledWitness ==
    /\ Completed(1)
    /\ TransformedIds(run[1].file_path) \cap Present(school_accounts) # {}
    /\ Present(school_accounts) \ FileIds(run[1].file_path) # {}
    /\ Present(run[1].pre) \ FileIds(run[1].file_path) # {}

C3_CompleteOrAllInactive ==
    \A r \in Runs :
        (run[r].pc = "done" /\ run[r].swept) =>
            (run[r].result.kind = "ok" \/ ActiveIds(school_accounts) = {})

\* C4: a run on a file that fails validation goes no further than the
\* validation: it returns the validation errors and the table is as it was
\* when the run began.
C4_ValidationGate ==
    \A r \in Runs :
        LET v == validate_file(run[r].file_path)
        IN (run[r].pc # "idle" /\ ~v.ok) =>
              /\ run[r].pc \in {"validate", "done"}
              /\ school_accounts = run[r].pre
              /\ ~run[r].swept
              /\ run[r].total_processed = 0
              /\ run[r].school_ids_to_activate = <<>>
              /\ run[r].pc = "done" =>
                    /\ run[r].result = Err("Validation failed", v.errors)
                    /\ v.errors # <<>>

\* an import of an invalid file has returned while the table holds an active
\* account
C4_ValidationGateWitness ==
    /\ run[1].pc = "done"
    /\ run[1].result.kind = "err"
    /\ run[1].result.message = "Validation failed"
    /\ ActiveIds(school_accounts) # {}

\* C5: a failure of the deactivate-all sweep or of the bulk reactivation ends
\* the run at once with the error of that statement, and no outcome.
C5_SweepFailureFatal ==
    \A r \in Runs :
        \A i \in 1..Len(run[r].faults) :
            run[r].faults[i] \in {"deactivate", "activate"} =>
                /\ i = Len(run[r].faults)
                /\ run[r].pc = "done"
                /\ run[r].result.kind = "err"
                /\ run[r].result.message =
                      (IF run[r].faults[i] = "deactivate"
                       THEN "Failed to deactivate existing accounts"
                       ELSE "Failed to activate imported accounts")

\* the bulk reactivation failed after a row had been imported
C5_SweepFailureWitness ==
    /\ run[1].pc = "done"
    /\ run[1].faults # <<>>
    /\ run[1].faults[Len(run[1].faults)] = "activate"
    /\ run[1].successful_imports >= 1

\* a create or update failed in this step of run r
RowStoreFailure(r) ==
    /\ run[r].pc \in {"create", "update"}
    /\ Len(run'[r].faults) = Len(run[r].faults) + 1

\* C6: a create or update failure on a row counts one failed import, appends
\* one message and passes to the next row of the file; a run in which nothing
\* but creates and updates failed returns an outcome covering every row.
C6_RowFailureNotFatal ==
    [][\A r \in Runs :
          /\ RowStoreFailure(r) =>
                /\ run'[r].failed_imports = run[r].failed_imports + 1
                /\ run'[r].successful_imports = run[r].successful_imports
                /\ Len(run'[r].error_details) = Len(run[r].error_details) + 1
                /\ run'[r].idx = run[r].idx + 1
                /\ run'[r].pc \in {"row", "activate"}
                /\ run'[r].result = NoResult
                /\ school_accounts' = school_accounts
          /\ (/\ run[r].pc = "done"
              /\ validate_file(run[r].file_path).ok
              /\ \A i \in 1..Len(run[r].faults) : run[r].faults[i] \in {"create", "update"}) =>
                /\ run[r].result.kind = "ok"
                /\ run[r].result.total_processed = Len(batched_records(r))
                /\ Len(run[r].result.error_details) = run[r].result.failed_imports]_vars

\* an import has returned its outcome although the create of every one of
\* its rows failed
C6_EveryRowFailedWitness ==
    /\ Completed(1)
    /\ run[1].result.total_processed >= 2
    /\ run[1].result.failed_imports = run[1].result.total_processed
    /\ \A i \in 1..Len(run[1].result.error_details) :
          run[1].result.error_details[i].message = "Import failed"

\* C7: total_processed == successful_imports + failed_imports in every
\* outcome, and after every row of the loop (between the lookup of a row and
\* its create or update, the row is counted as processed only).
C7_ProcessedAccounting ==
    \A r \in Runs :
        /\ run[r].total_processed =
              run[r].successful_imports + run[r].failed_imports
              + (IF run[r].pc \in {"create", "update"} THEN 1 ELSE 0)
        /\ Completed(r) =>
              run[r].result.total_processed =
                 run[r].result.successful_imports + run[r].result.failed_imports

\* an outcome that counts a successful row and a failed one
C7_MixedOutcomeWitness ==
    /\ Completed(1)
    /\ run[1].result.successful_imports >= 1
    /\ run[1].result.failed_imports >= 1

\* C8: the account-status counts of an outcome describe the table after the
\* run (imports not overlapping).
C8_StatusCounts ==
    \A r \in Runs :
        Completed(r) =>
            /\ run[r].result.total_accounts = Cardinality(Present(school_accounts))
            /\ run[r].result.activated_accounts = Cardinality(ActiveIds(school_accounts))
            /\ run[r].result.deactivated_accounts >= 0
            /\ run[r].result.activated_accounts + run[r].result.deactivated_accounts
                  = run[r].result.total_accounts

\* the activation set was empty and the bulk reactivation skipped, with
\* accounts in the table that were active before the run
C8_EmptyActivationWitness ==
    /\ Completed(1)
    /\ run[1].school_ids_to_activate = <<>>
    /\ ActiveIds(run[1].pre) # {}

\* the rows of the file the transformer turned into requests
ValidRows(file) ==
    LET results == batch_transform_records(file)
    IN {i \in 1..Len(results) : results[i].ok}

\* an import with force_update=false that began on an empty table
FirstImport(r) ==
    /\ Completed(r)
    /\ Present(run[r].pre) = {}
    /\ ~run[r].force_update

\* C9 as stated, on runs in which no store operation failed: one account per
\* valid row, total_processed the number of data rows, successful_imports the
\* number of accounts created.
C9_OneAccountPerValidRow ==
    \A r \in Runs :
        (FirstImport(r) /\ run[r].faults = <<>>) =>
            /\ Cardinality(Present(school_accounts))
                  = Cardinality(ValidRows(run[r].file_path))
            /\ run[r].result.total_processed = Len(run[r].file_path.rows)
            /\ run[r].result.successful_imports = Cardinality(Present(school_accounts))

\* C9 as amended: the import creates one account per distinct external id of
\* the valid rows (a later row with an id already imported fails with "already
\* exists"; an id whose create failed gets no account); total_processed is the
\* number of data rows and successful_imports the number of accounts created.
C9_OneAccountPerDistinctId ==
    \A r \in Runs :
        FirstImport(r) =>
            /\ Present(school_accounts) \subseteq TransformedIds(run[r].file_path)
            /\ run[r].faults = <<>> =>
                  Present(school_accounts) = TransformedIds(run[r].file_path)
            /\ run[r].result.total_processed = Len(run[r].file_path.rows)
            /\ run[r].result.successful_imports = Cardinality(Present(school_accounts))

\* two valid rows of the file carry the same external id
C9_DuplicateIdWitness ==
    /\ FirstImport(1)
    /\ run[1].faults = <<>>
    /\ Cardinality(ValidRows(run[1].file_path)) = 2
    /\ Cardinality(Present(school_accounts)) = 1

\* the outcome of a re-import in which every row failed with "already exists"
\* and the table is as the first import left it
AllAlreadyExist(r) ==
    /\ run[r].result.failed_imports = Len(run[r].file_path.rows)
    /\ Len(run[r].result.error_details) = Len(run[r].file_path.rows)
    /\ \A i \in 1..Len(run[r].result.error_details) :
          run[r].result.error_details[i].message = "already exists"
    /\ run[r].result.successful_imports = 0
    /\ school_accounts = run[r].pre

Validated(r) == run[r].pc = "done"

\* C11: validation performs no store mutation: a step in which a file is
\* validated, its cross-check with the existing accounts included, leaves
\* every account of the table, its fields and its active flag as they were.
C11_ValidationReadOnly ==
    [][(\E r \in Runs : ~Validated(r) /\ Validated(r)')
          => school_accounts' = school_accounts]_vars

\* a valid file was cross-checked and an account of the table carries one of
\* its ids
C11_CrossCheckedWitness ==
    /\ Validated(1)
    /\ run[1].result.ok
    /\ run[1].existing_accounts # {}
    /\ \E s \in SchoolIds : school_accounts[s].present /\ ~school_accounts[s].is_active

\* the file of an invocation, and whether its contents could be read
Readable(r) == run[r].file_path.exists /\ run[r].file_path.readable

\* the errors the caller of an invocation received
ReturnedErrors(r) == IF run[r].result.ok THEN <<>> ELSE run[r].result.errors

\* the check an error kind belongs to
CheckOf(error_type) ==
    CASE error_type = "FileSize" -> "size"
      [] error_type = "FileType" -> "extension"
      [] error_type = "Encoding" -> "encoding"
      [] error_type = "HeaderMissing" -> "headers"
      [] OTHER -> "rows"

\* the required headers the header line of a file lacks
MissingHeaders(file) ==
    {h \in SeqToSet(required_headers) :
        \A i \in 1..Len(read_headers(file)) : to_lowercase(read_headers(file)[i]) # h}

\* a row the reader cannot parse, or with a blank required field or a bad
\* optional field under a header of the file
BadRow(file, n) ==
    \/ ~file.rows[n].parse_ok
    \/ \E i \in 1..Len(read_headers(file)) :
          LET header == to_lowercase(read_headers(file)[i])
              value == trim(get(file.rows[n].cells, i))
          IN \/ header \in SeqToSet(required_headers) /\ value = ""
             \/ header = "is_active" /\ value \notin {"", "0", "1", "true", "false"}

\* the checks a file violates
ViolatedChecks(file) ==
    (IF file.size > 10 * 1024 * 1024 THEN {"size"} ELSE {})
    \cup (IF file.extension \notin {"csv", "CSV"} THEN {"extension"} ELSE {})
    \cup (IF ~file.utf8 THEN {"encoding"} ELSE {})
    \cup (IF MissingHeaders(file) # {} THEN {"headers"} ELSE {})
    \cup (IF \E n \in 1..Len(file.rows) : BadRow(file, n) THEN {"rows"} ELSE {})

\* C12: validation accumulates: the error list returned for a readable file
\* holds errors of every check the file violates (size, extension, encoding,
\* required headers, rows), and of no other check.
C12_ErrorsOfEveryViolatedCheck ==
    \A r \in Runs :
        (Validated(r) /\ Readable(r))
            => {CheckOf(ReturnedErrors(r)[i].error_type) :
                   i \in 1..Len(ReturnedErrors(r))}
               = ViolatedChecks(run[r].file_path)

\* a readable file that violates the five checks at once
C12_FiveChecksViolatedWitness ==
    /\ Validated(1)
    /\ Readable(1)
    /\ run[1].file_path.header_ok
    /\ Cardinality(ViolatedChecks(run[1].file_path)) = 5
    /\ Len(ReturnedErrors(1)) >= 5

\* validation returned exactly one error, file-level and of the given kind,
\* and ran no header or row check
OnlyError(r, error_type) ==
    /\ ~run[r].result.ok
    /\ run[r].result.errors = <<ValidationError(0, "None", error_type)>>
    /\ run[r].validation_result = NoResult
    /\ run[r].existing_accounts = {}

\* C13 as stated: a file that cannot be opened or read at all, a file that
\* does not exist included, yields exactly one error, of kind Encoding, and
\* no header or row check runs.
C13_UnreadableIsEncoding ==
    \A r \in Runs :
        (Validated(r) /\ ~Readable(r)) => OnlyError(r, "Encoding")

\* C13 as amended: such a file yields exactly one error and no header or row
\* check runs; the error is of kind Encoding when the file exists and cannot
\* be opened or read, and of kind FileSize when the file does not exist.
C13_UnreadableIsOneError ==
    \A r \in Runs :
        (Validated(r) /\ ~Readable(r))
            => OnlyError(r, IF run[r].file_path.exists THEN "Encoding" ELSE "FileSize")

\* a file that exists, is too large and is not named .csv, and cannot be opened
C13_UnopenableWitness ==
    /\ Validated(1)
    /\ run[1].file_path.exists
    /\ ~run[1].file_path.readable
    /\ run[1].file_path.size > max_file_size
    /\ run[1].file_path.extension = "txt"
    /\ Len(run[1].result.errors) = 1

\* the positions of the HeaderMissing errors that name a field
NamedHeaderMissing(errors) ==
    {i \in 1..Len(errors) :
        errors[i].error_type = "HeaderMissing" /\ errors[i].field # "None"}

\* C14: a readable file that lacks at least one required header (names
\* compared case-insensitively) is invalid, and its HeaderMissing errors name
\* exactly the required headers it lacks, one error for each; a file that
\* lacks none has no such error.
C14_HeaderMissingPerMissingHeader ==
    \A r \in Runs :
        (Validated(r) /\ Readable(r)) =>
            LET missing == MissingHeaders(run[r].file_path)
                errors == ReturnedErrors(r)
            IN /\ missing # {} => ~run[r].result.ok
               /\ {errors[i].field : i \in NamedHeaderMissing(errors)} = missing
               /\ Cardinality(NamedHeaderMissing(errors)) = Cardinality(missing)

\* a header line that names student_id in capitals and lacks middle_name
C14_MixedCaseMissingWitness ==
    /\ Validated(1)
    /\ Readable(1)
    /\ run[1].file_path.header_ok
    /\ "Student_ID" \in SeqToSet(run[1].file_path.headers)
    /\ MissingHeaders(run[1].file_path) = {"middle_name"}
    /\ Cardinality(NamedHeaderMissing(ReturnedErrors(1))) = 1

\* the DataIntegrity errors of a list that name a field and carry a row number
FieldErrors(errors, field, row_number) ==
    {i \in 1..Len(errors) :
        /\ errors[i].error_type = "DataIntegrity"
        /\ errors[i].field = field
        /\ errors[i].row_number = row_number}

\* C15: for every data row the reader parsed and every required field whose
\* header is present, a value that is empty after trimming produces exactly
\* one DataIntegrity error that names the field and carries the number of the
\* row, and a non-empty value produces none.
C15_OneErrorPerBlankField ==
    \A r \in Runs :
        (Validated(r) /\ Readable(r)) =>
            LET file == run[r].file_path
                headers == read_headers(file)
            IN \A n \in 1..Len(file.rows) : \A i \in 1..Len(headers) :
                  (/\ file.rows[n].parse_ok
                   /\ to_lowercase(headers[i]) \in SeqToSet(required_headers))
                     => Cardinality(FieldErrors(ReturnedErrors(r),
                                                to_lowercase(headers[i]), n))
                        = IF trim(get(file.rows[n].cells, i)) = "" THEN 1 ELSE 0

C17_ValidIffNoErrors ==
    \A r \in Runs :
        Validated(r) =>
            /\ run[r].result.ok <=>
                  (Readable(r) /\ run[r].validation_result.errors = <<>>)
            /\ run[r].result.ok <=>
                  (Readable(r) /\ ViolatedChecks(run[r].file_path) = {})
            /\ run[r].result.ok =>
                  /\ run[r].result.value.is_valid
                  /\ run[r].result.value.errors = <<>>
            /\ ~run[r].result.ok =>
                  /\ run[r].result.errors # <<>>
                  /\ Readable(r) => run[r].result.errors = run[r].validation_result.errors

\* a file of three rows without any error was validated
C17_ValidFileWitness ==
    /\ Validated(1)
    /\ run[1].result.ok
    /\ run[1].result.value.is_valid
    /\ run[1].result.value.total_rows = 3
    /\ run[1].result.value.validated_rows = 3

\* C18: a file that fails validation only structurally or at row level (its
\* contents were read) still yields its preview to the caller: the return
\* value carries the preview rows captured from the file.
C18_PreviewOfInvalidFile ==
    \A r \in Runs :
        (Validated(r) /\ Readable(r)) =>
            /\ "value" \in DOMAIN run[r].result
            /\ run[r].result.value.preview_rows = run[r].validation_result.preview_rows

\* the cells of the rows of a sequence that the reader could parse, in order
ParsedCells(rows) ==
    LET parsed == SelectSeq(rows, LAMBDA row : row.parse_ok)
    IN [i \in 1..Len(parsed) |-> parsed[i].cells]

\* the first n elements of a sequence, all of them when it has fewer
FirstN(seq, n) == SubSeq(seq, 1, IF Len(seq) < n THEN Len(seq) ELSE n)

RowStep(r) == run[r].pc = "row" /\ run'[r] # run[r]

\* the request or transform error of the row run r is at
CurrentRow(r) == batched_records(r)[run[r].idx]

\* the last message of the error list of a run record
LastError(rec) == rec.error_details[Len(rec.error_details)]

\* C21: when the row's external id is found in the store and force_update is
\* false, processing the row increments failed_imports by one with an
\* "already exists" message for that id and leaves the existing record as it
\* was; a record that was in the store before the import still has the
\* last-updated-semester reference it had then.
C21_ExistingRowNotMutated ==
    [][\A r \in Runs :
          (/\ RowStep(r)
           /\ CurrentRow(r).ok
           /\ school_accounts[CurrentRow(r).school_id].present
           /\ ~run[r].force_update)
             => /\ run'[r].failed_imports = run[r].failed_imports + 1
                /\ run'[r].successful_imports = run[r].successful_imports
                /\ Len(run'[r].error_details) = Len(run[r].error_details) + 1
                /\ LastError(run'[r]) = [message |-> "already exists",
                                         school_id |-> CurrentRow(r).school_id]
                /\ school_accounts' = school_accounts
                /\ LET s == CurrentRow(r).school_id
                   IN run[r].pre[s].present =>
                         school_accounts'[s].last_updated_semester_id
                            = run[r].pre[s].last_updated_semester_id]_vars

\* an import under another semester than the one an account of the store was
\* last updated in has reported that account as already existing
C21_ExistingRowWitness ==
    /\ Completed(1)
    /\ ~run[1].force_update
    /\ \E i \in 1..Len(run[1].error_details) :
          LET e == run[1].error_details[i]
          IN /\ e.message = "already exists"
             /\ run[1].pre[e.school_id].present
             /\ run[1].pre[e.school_id].last_updated_semester_id # run[1].semester_id
             /\ school_accounts[e.school_id].last_updated_semester_id
                   = run[1].pre[e.school_id].last_updated_semester_id

\* the external ids of a file that only rows failing transformation carry
UntransformedIds(file) == (FileIds(file) \cap SchoolIds) \ TransformedIds(file)

Messages(rec, texts) ==
    Cardinality({i \in 1..Len(rec.error_details) : rec.error_details[i].message \in texts})

\* the rows of a run whose external id the lookup found in the store: the
\* updated ones, those whose update failed and those reported as existing
FoundRows(rec) ==
    Len(rec.existing_accounts) + Messages(rec, {"Update failed", "already exists"})

\* the rows of a run for which the lookup found no record: the created ones
\* and those whose create failed
NotFoundRows(rec) ==
    (rec.successful_imports - Len(rec.existing_accounts)) + Messages(rec, {"Import failed"})

\* C23: in every outcome existing_accounts_count is the number of processed
\* rows whose external id was found in the store at lookup time and
\* new_accounts_count the number of processed rows for which no record was
\* found, for both values of force_update.
C23_ExistingNewSplit ==
    \A r \in Runs :
        Completed(r) =>
            /\ run[r].result.existing_accounts_count = FoundRows(run[r])
            /\ run[r].result.new_accounts_count = NotFoundRows(run[r])

\* C24: every validation error produced for a data row (a blank required
\* field, a bad optional field, a row the reader cannot parse) carries the
\* 1-based number of that row, and row number 0 appears only on file-level
\* errors (size, type, encoding, header).
C24_RowErrorsCarryRowNumber ==
    \A r \in Runs :
        (Validated(r) /\ Readable(r)) =>
            \A i \in 1..Len(ReturnedErrors(r)) :
                LET e == ReturnedErrors(r)[i]
                IN /\ CheckOf(e.error_type) = "rows"
                        => /\ e.row_number >= 1
                           /\ e.row_number <= Len(run[r].file_path.rows)
                   /\ e.row_number = 0 => CheckOf(e.error_type) # "rows"

\* the statements of the bulk reactivation that failed in a run
ReactivationFaults(rec) ==
    {i \in 1..Len(rec.faults) : rec.faults[i] \in {"activate", "count_activated"}}

\* C25: when a valid file yields an empty activation set (no data rows, or
\* every row failed transformation) the import has run the deactivate-all
\* sweep, skips the bulk reactivation, which therefore cannot fail, and
\* completes with every account of the store inactive and
\* activated_accounts = 0.
C25_EmptyActivationSet ==
    \A r \in Runs :
        /\ (/\ run[r].pc \in {"count_total", "done"}
            /\ run[r].swept
            /\ run[r].school_ids_to_activate = <<>>)
              => ReactivationFaults(run[r]) = {}
        /\ (Completed(r) /\ run[r].school_ids_to_activate = <<>>)
              => /\ run[r].swept
                 /\ ActiveIds(school_accounts) = {}
                 /\ run[r].result.activated_accounts = 0
                 /\ run[r].result.deactivated_accounts = run[r].result.total_accounts

\* every row of a two-row file failed transformation, and the store held two
\* active accounts before the import
C25_AllRowsFailedWitness ==
    /\ Completed(1)
    /\ run[1].school_ids_to_activate = <<>>
    /\ run[1].result.total_processed = 2
    /\ run[1].result.failed_imports = 2
    /\ Cardinality(ActiveIds(run[1].pre)) = 2
    /\ run[1].result.total_accounts = 2

(***************************************************************************)
(* Properties of the WebSocket relay, under SpecRelay.                     *)
(***************************************************************************)
\* the broadcast task has gone through connections.iter() for its event
PassDone == broadcast.pc = "iterate" /\ broadcast.todo = <<>>

\* the clients whose channel the sender task has closed
ClosedQueues == {d \in Clients : socket[d].sender = "ended"}

\* every event the relay holds was enqueued by the handler of its client
EnqueuedByOrigin ==
    /\ \A i \in 1..Len(sender_tx) :
          sender_tx[i].exclude_client = sender_tx[i].event.client_id
    /\ broadcast.pc # "recv" => broadcast.exclude_client = broadcast.event.client_id

\* no client's channel holds an event produced for that client
NeverToOrigin ==
    /\ \A d \in Clients : \A i \in 1..Len(client_rx[d]) : client_rx[d][i].client_id # d
    /\ broadcast.exclude_client \notin broadcast.sent_to

\* C26 as stated: an event enqueued with originating client id X is delivered
\* to the queue of every client registered when the relay handles it except
\* X, and never to X, whatever the kind of the event.
C26_DeliveredToAllButOrigin ==
    /\ EnqueuedByOrigin
    /\ NeverToOrigin
    /\ PassDone => connections \ {broadcast.exclude_client} \subseteq broadcast.sent_to

\* C26 amended: an event enqueued with originating client id X is delivered
\* to the queue of every client registered when the relay handles it whose
\* queue is still open, except X, and never to X, whatever its kind (a
\* registered client whose sender task has ended gets nothing: line 78
\* ignores the failed send).
C26_DeliveredToOpenQueues ==
    /\ EnqueuedByOrigin
    /\ NeverToOrigin
    /\ PassDone =>
          connections \ ({broadcast.exclude_client} \cup ClosedQueues)
              \subseteq broadcast.sent_to

\* the reply to X's own request has gone to another client and not to X,
\* which is registered, while a third registered client's queue was closed
C26_ReplyRelayedWitness ==
    /\ PassDone
    /\ broadcast.event.kind = "AttendanceList"
    /\ broadcast.exclude_client \in connections
    /\ \E d \in broadcast.sent_to :
          /\ client_rx[d] # <<>>
          /\ client_rx[d][Len(client_rx[d])] = broadcast.event
    /\ \E c \in connections \ broadcast.sent_to :
          c # broadcast.exclude_client /\ c \in ClosedQueues

\* the events of a kind the relay holds anywhere: in a handler's
\* hand, in the relay's input queue, with the broadcast task, in a client's queue
Relayed(kind) ==
    {socket[c].event : c \in {x \in Clients : socket[x].event.kind = kind}}
    \cup {sender_tx[i].event : i \in {j \in 1..Len(sender_tx) : sender_tx[j].event.kind = kind}}
    \cup (IF broadcast.event.kind = kind THEN {broadcast.event} ELSE {})
    \cup UNION {{client_rx[d][i] : i \in {j \in 1..Len(client_rx[d]) : client_rx[d][j].kind = kind}}
                   : d \in Clients}

\* the handler of c has served a NewAttendance request and is about to
\* enqueue the event for it
Serving(c) == socket[c].receiver = "send" /\ socket[c].message = "NewAttendance"

\* C27: a NewAttendance event is enqueued for broadcast only after the record
\* of its request has been created in the database; when the creation fails
\* the handler enqueues an Error event instead, and no NewAttendance event of
\* that request is anywhere in the relay, then or later.
C27_NewAttendanceOnlyAfterCreation ==
    /\ \A e \in Relayed("NewAttendance") : <<e.client_id, e.request>> \in attendances
    /\ \A c \in Clients :
          Serving(c) =>
             socket[c].event.kind =
                IF <<c, socket[c].requests>> \in attendances THEN "NewAttendance" ELSE "Error"

\* one client's created request has reached another client's queue while a
\* handler holds the Error event of a creation that failed
C27_CreatedRelayedFailedRefusedWitness ==
    /\ \E c \in Clients :
          /\ Serving(c)
          /\ <<c, socket[c].requests>> \notin attendances
          /\ socket[c].event.kind = "Error"
    /\ \E d \in Clients : \E i \in 1..Len(client_rx[d]) :
          /\ client_rx[d][i].kind = "NewAttendance"
          /\ <<client_rx[d][i].client_id, client_rx[d][i].request>> \in attendances

\* the queue of c holds as many events as the channel takes
Full(c) == Len(client_rx[c]) = ChannelCapacity

\* this step takes no event out of the queue of c
NotDrained(c) == Len(client_rx'[c]) >= Len(client_rx[c])

\* the broadcast task awaits space in the queue of c (line 78)
AwaitsSpace(c) ==
    /\ broadcast.pc = "iterate"
    /\ broadcast.todo # <<>>
    /\ Head(broadcast.todo) = c
    /\ ~excluded(c, broadcast.exclude_client)
    /\ socket[c].sender = "running"
    /\ Full(c)

\* what the claim says a full queue brings about, of one step: no other
\* client receives an event, no client registers or unregisters, and once
\* the relay's input queue is full it stays as it is, every handler that
\* has an event to enqueue staying where it is
Stalled(c) ==
    /\ \A d \in Clients \ {c} : Len(client_rx'[d]) <= Len(client_rx[d])
    /\ connections' = connections
    /\ Len(sender_tx) = ChannelCapacity =>
          /\ sender_tx' = sender_tx
          /\ \A h \in Clients :
                socket[h].receiver = "send" => socket'[h].receiver = "send"

\* C28 as stated: while one registered client's queue is full and not
\* drained, no other client receives any event, no client can register or
\* unregister, and once the relay's input queue fills every handler that
\* enqueues an event blocks.
C28_FullQueueStalls ==
    [][\A c \in connections : Full(c) /\ NotDrained(c) => Stalled(c)]_vars

\* C28 amended: the broadcast task holds the connections lock while it awaits
\* space in a client's queue, so while it awaits space in one registered
\* client's full queue and that queue is not drained, the task stays where it
\* is, no other client receives any event, no client can register or
\* unregister, and once the relay's input queue fills every handler that
\* enqueues an event blocks.
C28_AwaitedFullQueueStalls ==
    [][\A c \in connections :
          AwaitsSpace(c) /\ NotDrained(c) =>
             /\ Stalled(c)
             /\ broadcast' = broadcast
             /\ sender_tx' \in {sender_tx} \cup {Append(sender_tx, m) : m \in
                   {[exclude_client |-> h, event |-> socket[h].event] : h \in Clients}}]_vars

\* the broadcast task awaits space in the full queue of one client while
\* another client is still to be served, a third waits for the lock to
\* unregister, and the relay's input queue is full
C28_RelayStalledWitness ==
    \E c \in connections :
       /\ AwaitsSpace(c)
       /\ \E i \in 2..Len(broadcast.todo) :
             /\ ~excluded(broadcast.todo[i], broadcast.exclude_client)
             /\ socket[broadcast.todo[i]].sender = "running"
       /\ \E x \in connections : socket[x].pc = "unregister"
       /\ Len(sender_tx) = ChannelCapacity

====
